---- MODULE Spec2Model ----
(***************************************************************************)
(* Model of lattice_functions.py: the 2D Ising lattice, its periodic       *)
(* neighbour lookup, the local Hamiltonian, the Metropolis sweep           *)
(* (update_lattice with its nested p_flip) and the two observables.        *)
(*                                                                         *)
(* Numbers.  Spins, h and every Hamiltonian value are integers here (the   *)
(* code computes them in float64, exactly, for integer h).  A temperature  *)
(* is held in hundredths (T100 = 100 * T), so T = 0.01 is T100 = 1.  A     *)
(* quotient is held as an unreduced pair <<num, den>>.  A probability      *)
(* e ** x is held by its exponent x = a / b (b > 0), and a uniform draw r  *)
(* of np.random.rand() by q with r = e ** (-q), q = 0 standing for         *)
(* r = 0.0; p > r is then decided exactly, by a / b > -q.  q = -1 stands   *)
(* for no draw: the "or" of line 155 calls np.random.rand() only when the  *)
(* probability is not 1.0.                                                 *)
(***************************************************************************)
EXTENDS Integers, Sequences, FiniteSets, TLC

VARIABLES
    n,        \* side length the lattice was constructed with
    lattice,  \* the one numpy array, a tuple of rows: lattice[i, j] is lattice[i + 1][j + 1]
    pc,       \* "idle": between calls; "sweep": inside update_lattice; "error": an exception left a call
    T100,     \* update_lattice's T, in hundredths (0 outside a call)
    h,        \* update_lattice's h (0 outside a call)
    magtype,  \* update_lattice's magtype ("" outside a call)
    num,      \* update_lattice's loop variable: trials completed by the running call
    ret,      \* the last call: its name, arguments and return value
    calls     \* the driver's count of update_lattice calls (scenario of section 8)

vars == <<n, lattice, pc, T100, h, magtype, num, ret, calls>>

(* ------------------------------ bounds -------------------------------- *)

\* largest side of a lattice that is swept
MaxN == 2
\* largest side of a lattice that nearest_neighbours is applied to
MaxSide == 3
\* largest |h|
MaxH == 1
\* update_lattice calls of the section 8 scenario
NumSweeps == 50

Sides == 1..MaxN
Spins == {-1, 1}
\* the h of ham_calc and of energy
HValues == (-MaxH)..MaxH
\* the h of update_lattice
SweepHValues == {0, 1}
\* T = -1.0, 0.0, 4.0, in hundredths
TValues == {-100, 0, 400}
MagTypes == {"ferro", "antiferro", "para"}
\* np.random.rand(): r = 0.0 (q = 0) and r = e ** -1 (q = 1)
RDraws == {0, 1}

Lattices(side) == [1..side -> [1..side -> Spins]]

(* ------------------------- numpy array access ------------------------- *)

\* np.shape(lattice)[0], lattice.shape[0]
shape0(l) == Len(l)

\* lattice.shape[1]
shape1(l) == Len(l[1])

\* Python's index rule on an axis of length len: a negative index counts from the end
PyIndex(k, len) == IF k < 0 THEN k + len ELSE k

\* lattice[a, b] (a TLA+ tuple counts from 1)
At(l, a, b) == l[PyIndex(a, shape0(l)) + 1][PyIndex(b, shape1(l)) + 1]

\* the array as a row-major tuple of its cells
RECURSIVE FlattenFrom(_, _)
FlattenFrom(l, k) ==
    IF k >= shape0(l) * shape1(l) THEN <<>>
    ELSE <<At(l, k \div shape1(l), k % shape1(l))>> \o FlattenFrom(l, k + 1)

Flatten(l) == FlattenFrom(l, 0)

(* ------------------------ antiferro_lattice_gen ----------------------- *)

antiferro_lattice_gen(side) ==
    [r \in 1..side |-> [c \in 1..side |->
        LET i == r - 1
            j == c - 1
        IN  IF i % 2 = 0
            THEN (IF j % 2 = 0 THEN -1 ELSE 1)
            ELSE (IF j % 2 # 0 THEN -1 ELSE 1)]]

(* -------------------------- nearest_neighbours ------------------------ *)

\* variant: the edges clamp instead of wrapping
nearest_neighbours_clamped(l, i, j) ==
    LET top == IF i = 0 THEN At(l, i, j) ELSE At(l, i - 1, j)
        left == IF j = 0 THEN At(l, i, j) ELSE At(l, i, j - 1)
        bottom == IF i = shape0(l) - 1 THEN At(l, i, j) ELSE At(l, i + 1, j)
        right == IF j = shape1(l) - 1 THEN At(l, i, j) ELSE At(l, i, j + 1)
    IN  <<top, bottom, left, right>>

\* <<top, bottom, left, right>>
nearest_neighbours(l, i, j) ==
    LET top == At(l, i - 1, j)
        left == At(l, i, j - 1)
        bottom == IF i = shape0(l) - 1 THEN At(l, 0, j) ELSE At(l, i + 1, j)
        right == IF j = shape1(l) - 1 THEN At(l, i, 0) ELSE At(l, i, j + 1)
    IN  <<top, bottom, left, right>>

(* ------------------------------ ham_calc ------------------------------ *)

Raised == [ok |-> FALSE, val |-> 0]
Returned(v) == [ok |-> TRUE, val |-> v]

\* lines 96-98: ham = 0., then ham += ham_array[val] over range(0, len(ham_array));
\* ham_array has the four entries of the neighbour array of line 78
HamSum(ham_array) == 0 + ham_array[1] + ham_array[2] + ham_array[3] + ham_array[4]

\* variant: an else branch makes every other magtype ferro
ham_calc_default_ferro(particle, neighbours, hh, mt) ==
    LET J == IF mt = "antiferro" THEN -1 ELSE 1
        ham_array == [k \in 1..4 |-> (-J) * particle * neighbours[k]]
    IN  Returned(HamSum(ham_array) - (hh * particle))

\* variant: ham += (h * particle)
ham_calc_field_sign(particle, neighbours, hh, mt) ==
    IF mt \notin {"ferro", "antiferro"} THEN Raised
    ELSE LET J == IF mt = "ferro" THEN 1 ELSE -1
             ham_array == [k \in 1..4 |-> (-J) * particle * neighbours[k]]
         IN  Returned(HamSum(ham_array) + (hh * particle))

\* J is bound only by the two branches of lines 89-92: any other magtype
\* raises UnboundLocalError at line 95
ham_calc(particle, neighbours, hh, mt) ==
    IF mt \notin {"ferro", "antiferro"} THEN Raised
    ELSE LET J == IF mt = "ferro" THEN 1 ELSE -1
             ham_array == [k \in 1..4 |-> (-J) * particle * neighbours[k]]
         IN  Returned(HamSum(ham_array) - (hh * particle))

(* ------------------------------- p_flip ------------------------------- *)

POne == [kind |-> "finite", a |-> 0, b |-> 1]
PZero == [kind |-> "zero", a |-> 0, b |-> 1]
PInf == [kind |-> "inf", a |-> 0, b |-> 1]
PNaN == [kind |-> "nan", a |-> 0, b |-> 1]

\* variant: the exponential in exact arithmetic, never 0.0 nor inf
Exp_no_underflow(a, b) ==
    IF a = 0 THEN POne ELSE [kind |-> "finite", a |-> a, b |-> b]

\* math.e ** (a / b) in float64, b > 0: 1.0 at a zero exponent, 0.0 below the
\* smallest subnormal (exponent under -745.14), inf above the largest double
\* (exponent over 709.78)
Exp(a, b) ==
    IF a = 0 THEN POne
    ELSE IF 100 * a <= (-74514) * b THEN PZero
    ELSE IF 100 * a >= 70979 * b THEN PInf
    ELSE [kind |-> "finite", a |-> a, b |-> b]

\* math.e ** (-1 * del_E / (k * T)) with k = 1. and del_E a numpy float64:
\* at T = 0 numpy divides to nan (del_E = 0) or -inf (del_E > 0) and warns
Boltzmann(del_E, t100) ==
    IF t100 > 0 THEN Exp((-100) * del_E, t100)
    ELSE IF t100 < 0 THEN Exp(100 * del_E, -t100)
    ELSE IF del_E = 0 THEN PNaN ELSE PZero

\* variant: a neutral move (del_E = 0) gets probability e ** -1
p_flip_neutral_penalised(del_E, t100) ==
    IF del_E < 0 THEN POne
    ELSE IF del_E = 0 /\ t100 > 0 THEN [kind |-> "finite", a |-> -1, b |-> 1]
    ELSE Boltzmann(del_E, t100)

p_flip(del_E, t100) ==
    IF del_E < 0 THEN POne ELSE Boltzmann(del_E, t100)

\* probability == 1.0
IsOne(p) == p.kind = "finite" /\ p.a = 0

\* probability > r, for the draw r = e ** (-q) (q > 0) or r = 0.0 (q = 0)
Greater(p, q) ==
    CASE p.kind = "nan" -> FALSE
      [] p.kind = "zero" -> FALSE
      [] p.kind = "inf" -> TRUE
      [] OTHER -> IF q = 0 THEN TRUE ELSE p.a > (-q) * p.b

\* line 155
Accept(p, q) == IsOne(p) \/ Greater(p, q)

(* ---------------------------- update_lattice -------------------------- *)

\* variant: range(0, N)
SweepLength_single(side) == side * side

\* N * 2, the bound of the loop of line 135
SweepLength(side) == (side * side) * 2

\* variant: lattice[i,j] = -1 + lattice[i,j]
Flip_decrement(s) == s - 1

\* -1 * lattice[i,j]
Flip(s) == -1 * s

\* lines 141-149: del_E of flipping site (i, j), or the exception of ham_calc
DeltaE(l, i, j, hh, mt) ==
    LET particle == At(l, i, j)
        neighbours == nearest_neighbours(l, i, j)
        ham == ham_calc(particle, neighbours, hh, mt)
        ham_flip == ham_calc(-1 * particle, neighbours, hh, mt)
    IN  IF ham.ok /\ ham_flip.ok THEN Returned(ham_flip.val - ham.val) ELSE Raised

NoCall == [op |-> "", magtype |-> "", args |-> <<>>, ok |-> TRUE, val |-> <<>>]

\* the call: lines 113-116, before the loop
StartSweep(t, hh, mt) ==
    /\ pc = "idle"
    /\ pc' = "sweep"
    /\ T100' = t
    /\ h' = hh
    /\ magtype' = mt
    /\ num' = 0
    /\ ret' = [NoCall EXCEPT !.op = "update_lattice", !.ok = FALSE]
    /\ UNCHANGED <<n, lattice>>

CallUpdate ==
    /\ \E t \in TValues, hh \in SweepHValues, mt \in MagTypes : StartSweep(t, hh, mt)
    /\ UNCHANGED calls

\* one iteration of the loop of lines 135-156 on the draws i, j and r, given
\* the del_E (or exception) of lines 141-149; ret is left to the caller
TrialStep(i, j, q, dE) ==
    /\ pc = "sweep"
    /\ num < SweepLength(shape0(lattice))
    /\ IF ~dE.ok
       THEN /\ pc' = "error"
            /\ UNCHANGED <<lattice, num>>
       ELSE /\ pc' = pc
            /\ num' = num + 1
            /\ lattice' = IF Accept(p_flip(dE.val, T100), q)
                          THEN [lattice EXCEPT ![i + 1][j + 1] = Flip(At(lattice, i, j))]
                          ELSE lattice
    /\ UNCHANGED <<n, T100, h, magtype, calls>>

\* np.random.randint(0, n)
SiteDraws == 0..(shape0(lattice) - 1)

\* np.random.rand() of line 155: not called when ham_calc raised, nor when
\* probability == 1.0 already decides the "or"
DrawsFor(dE) ==
    IF dE.ok /\ ~IsOne(p_flip(dE.val, T100)) THEN RDraws ELSE {-1}

Trial ==
    \E i \in SiteDraws, j \in SiteDraws :
        LET dE == DeltaE(lattice, i, j, h, magtype)
        IN  \E q \in DrawsFor(dE) : TrialStep(i, j, q, dE) /\ UNCHANGED ret

\* the first iteration of a call, with its draws, del_E, whether the
\* probability was 1.0, and the array before it, kept in ret
TrialRecorded ==
    /\ ret.op = "update_lattice"
    /\ \E i \in SiteDraws, j \in SiteDraws :
         LET dE == DeltaE(lattice, i, j, h, magtype)
             one == IF dE.ok /\ IsOne(p_flip(dE.val, T100)) THEN 1 ELSE 0
         IN  \E q \in DrawsFor(dE) :
               /\ TrialStep(i, j, q, dE)
               /\ ret' = [op |-> "trial", magtype |-> magtype,
                          args |-> <<i, j, q, dE.val, one>>,
                          ok |-> dE.ok, val |-> Flatten(lattice)]

\* the loop is exhausted after N * 2 iterations; line 158 returns the array
Return ==
    /\ pc = "sweep"
    /\ num >= SweepLength(shape0(lattice))
    /\ pc' = "idle"
    /\ ret' = [ret EXCEPT !.ok = TRUE, !.magtype = "", !.args = <<num>>, !.val = Flatten(lattice)]
    /\ T100' = 0
    /\ h' = 0
    /\ magtype' = ""
    /\ num' = 0
    /\ UNCHANGED <<n, lattice, calls>>

(* ------------------------------ observables --------------------------- *)

RECURSIVE CellSum(_, _)
CellSum(l, k) ==
    IF k >= shape0(l) * shape1(l) THEN 0
    ELSE At(l, k \div shape1(l), k % shape1(l)) + CellSum(l, k + 1)

\* variant: the scan overwrites the cells it reads
magnetisation_in_place(l) ==
    LET side == shape0(l)
        mag == CellSum(l, 0)
    IN  [lattice |-> [i \in DOMAIN l |-> [j \in DOMAIN l[i] |-> 1]],
         ok |-> TRUE,
         val |-> <<mag, side * side, mag * mag, (side * side) * (side * side)>>]

\* the array after the call and <<mag_persite, mag_persite_sq>>, each as num, den
magnetisation(l) ==
    LET side == shape0(l)
        mag == CellSum(l, 0)
    IN  [lattice |-> l,
         ok |-> TRUE,
         val |-> <<mag, side * side, mag * mag, (side * side) * (side * side)>>]

\* the loops of lines 205-208 from cell k on (row-major): the sum, or the exception
RECURSIVE EnergySum(_, _, _, _)
EnergySum(l, k, hh, mt) ==
    IF k >= shape0(l) * shape0(l) THEN Returned(0)
    ELSE LET i == k \div shape0(l)
             j == k % shape0(l)
             ham == ham_calc(At(l, i, j), nearest_neighbours(l, i, j), hh, mt)
             rest == EnergySum(l, k + 1, hh, mt)
         IN  IF ham.ok /\ rest.ok THEN Returned(ham.val + rest.val) ELSE Raised

\* variant: without E = E / 2.
energy_double_counted(l, hh, mt) ==
    LET side == shape0(l)
        E == EnergySum(l, 0, hh, mt)
    IN  IF ~E.ok THEN [lattice |-> l, ok |-> FALSE, val |-> <<>>]
        ELSE [lattice |-> l,
              ok |-> TRUE,
              val |-> <<E.val, side * side, E.val * E.val, (side * side) * (side * side)>>]

\* the array after the call and <<E_persite, E_persite_sq>>, each as num, den
energy(l, hh, mt) ==
    LET side == shape0(l)
        E == EnergySum(l, 0, hh, mt)
    IN  IF ~E.ok THEN [lattice |-> l, ok |-> FALSE, val |-> <<>>]
        ELSE [lattice |-> l,
              ok |-> TRUE,
              val |-> <<E.val, 2 * (side * side),
                        E.val * E.val, (2 * (side * side)) * (2 * (side * side))>>]

(* ------------------------- calls between sweeps ----------------------- *)

Magnetisation ==
    /\ pc = "idle"
    /\ LET r == magnetisation(lattice)
       IN  /\ lattice' = r.lattice
           /\ ret' = [NoCall EXCEPT !.op = "magnetisation", !.val = r.val]
    /\ UNCHANGED <<n, pc, T100, h, magtype, num, calls>>

Energy ==
    /\ pc = "idle"
    /\ \E hh \in HValues, mt \in MagTypes :
         LET r == energy(lattice, hh, mt)
         IN  /\ lattice' = r.lattice
             /\ pc' = IF r.ok THEN "idle" ELSE "error"
             /\ ret' = [NoCall EXCEPT !.op = "energy", !.magtype = mt, !.args = <<hh>>,
                                      !.ok = r.ok, !.val = r.val]
    /\ UNCHANGED <<n, T100, h, magtype, num, calls>>

NearestNeighbours ==
    /\ pc = "idle"
    /\ ret = NoCall
    /\ \E i \in 0..(shape0(lattice) - 1), j \in 0..(shape1(lattice) - 1) :
         ret' = [NoCall EXCEPT !.op = "nearest_neighbours", !.args = <<i, j>>,
                               !.val = nearest_neighbours(lattice, i, j)]
    /\ UNCHANGED <<n, lattice, pc, T100, h, magtype, num, calls>>

HamCalc ==
    /\ pc = "idle"
    /\ ret = NoCall
    /\ \E particle \in Spins, nb \in [1..4 -> Spins], hh \in HValues, mt \in MagTypes :
         LET r == ham_calc(particle, nb, hh, mt)
         IN  /\ pc' = IF r.ok THEN "idle" ELSE "error"
             /\ ret' = [NoCall EXCEPT !.op = "ham_calc", !.magtype = mt,
                                      !.args = <<particle>> \o nb \o <<hh>>,
                                      !.ok = r.ok,
                                      !.val = IF r.ok THEN <<r.val>> ELSE <<>>]
    /\ UNCHANGED <<n, lattice, T100, h, magtype, num, calls>>

(* ---------------------------- specifications -------------------------- *)

Init ==
    /\ n \in Sides
    /\ lattice \in Lattices(n)
    /\ pc = "idle"
    /\ T100 = 0
    /\ h = 0
    /\ magtype = ""
    /\ num = 0
    /\ ret = NoCall
    /\ calls = 0

Next ==
    \/ CallUpdate
    \/ Trial
    \/ Return
    \/ Magnetisation
    \/ Energy

Spec == Init /\ [][Next]_vars

\* the loop body of update_lattice applied once to every lattice, under every
\* T, h and magtype a call can carry (T = 0.01 added), with its draws recorded
InitTrial ==
    /\ n \in Sides
    /\ lattice \in Lattices(n)
    /\ pc = "sweep"
    /\ T100 \in TValues \cup {1}
    /\ h \in HValues
    /\ magtype \in MagTypes
    /\ num = 0
    /\ ret = [NoCall EXCEPT !.op = "update_lattice", !.ok = FALSE]
    /\ calls = 0

NextTrial == TrialRecorded

SpecTrial == InitTrial /\ [][NextTrial]_vars

\* update_lattice is a loop in the one thread there is: its next iteration,
\* and then its return, is always taken
FairSpec == Spec /\ WF_vars(Trial) /\ WF_vars(Return)

\* nearest_neighbours applied once to a site of a lattice
InitNN ==
    /\ n \in 1..MaxSide
    /\ lattice \in Lattices(n)
    /\ pc = "idle"
    /\ T100 = 0
    /\ h = 0
    /\ magtype = ""
    /\ num = 0
    /\ ret = NoCall
    /\ calls = 0

NextNN == NearestNeighbours

SpecNN == InitNN /\ [][NextNN]_vars

\* ham_calc applied once to an argument tuple; the lattice plays no part
InitHam == Init /\ n = 1

NextHam == HamCalc

SpecHam == InitHam /\ [][NextHam]_vars

\* the scenario of section 8: a 4 x 4 checkerboard, then 50 sweeps at
\* T = 0.01, h = 0, magtype = antiferro, sampled by magnetisation
InitAF ==
    /\ n = 4
    /\ lattice = antiferro_lattice_gen(4)
    /\ pc = "idle"
    /\ T100 = 0
    /\ h = 0
    /\ magtype = ""
    /\ num = 0
    /\ ret = NoCall
    /\ calls = 0

DriverSweep ==
    /\ calls < NumSweeps
    /\ calls' = calls + 1
    /\ StartSweep(1, 0, "antiferro")

NextAF ==
    \/ DriverSweep
    \/ Trial
    \/ Return
    \/ Magnetisation

SpecAF == InitAF /\ [][NextAF]_vars

(* ------------------------------- claims ------------------------------- *)

ValidMagTypes == {"ferro", "antiferro"}

\* update_lattice has returned and nothing was called since
SweepReturned == pc = "idle" /\ ret.op = "update_lattice" /\ ret.ok

\* the cells in which two arrays of side n differ
Changed(l1, l2) == {rc \in (1..n) \X (1..n) : l1[rc[1]][rc[2]] # l2[rc[1]][rc[2]]}

\* C1: in every state, between sweeps and after every trial inside one, the
\* lattice is still n x n and each of its cells is +1 or -1.
C1_SweepInvariant ==
    /\ Len(lattice) = n
    /\ \A r \in 1..n :
         /\ Len(lattice[r]) = n
         /\ \A c \in 1..n : lattice[r][c] = 1 \/ lattice[r][c] = -1

C1_Witness ==
    /\ pc = "sweep"
    /\ n = 2
    /\ T100 > 0
    /\ magtype = "antiferro"
    /\ num = 5

\* C2: nearest_neighbours(L, i, j) is <<top, bottom, left, right>> =
\* <<L[(i-1) mod n, j], L[(i+1) mod n, j], L[i, (j-1) mod n], L[i, (j+1) mod n]>>,
\* which at (0, 0) of a lattice of side 2 or more is
\* <<L[n-1, 0], L[1, 0], L[0, n-1], L[0, 1]>>.
C2_PeriodicNeighbours ==
    ret.op = "nearest_neighbours" =>
        LET i == ret.args[1]
            j == ret.args[2]
        IN  /\ ret.val = << lattice[((i - 1) % n) + 1][j + 1],
                            lattice[((i + 1) % n) + 1][j + 1],
                            lattice[i + 1][((j - 1) % n) + 1],
                            lattice[i + 1][((j + 1) % n) + 1] >>
            /\ (i = 0 /\ j = 0 /\ n >= 2) =>
                   ret.val = <<lattice[n][1], lattice[2][1], lattice[1][n], lattice[1][2]>>

C2_Witness ==
    /\ ret.op = "nearest_neighbours"
    /\ n = 3
    /\ ret.args = <<0, 0>>
    /\ lattice[1] = <<1, 1, -1>>
    /\ lattice[2] = <<1, 1, 1>>
    /\ lattice[3] = <<-1, 1, 1>>
    /\ ret.val = <<-1, 1, -1, 1>>

\* C3: a call of update_lattice with T <= 0 is refused before any trial runs,
\* so no state is inside such a call with a trial completed.
C3_RefusedBeforeAnyTrial == ~(pc = "sweep" /\ T100 <= 0 /\ num > 0)

\* C4: under a magtype other than ferro and antiferro, the step a running
\* update_lattice takes ends it in an error with the lattice as it was, the
\* call itself does not touch the lattice, and energy ends in an error with
\* no value and the lattice as it was.
C4_InvalidMagtypeFailsFast ==
    [][ /\ (pc = "sweep" /\ magtype \notin ValidMagTypes)
             => (pc' = "error" /\ lattice' = lattice)
        /\ (pc = "idle" /\ pc' = "sweep") => lattice' = lattice
        /\ (pc = "idle" /\ ret'.op = "energy" /\ ret'.magtype \notin ValidMagTypes)
             => (pc' = "error" /\ ~ret'.ok /\ ret'.val = <<>> /\ lattice' = lattice)
      ]_vars

C4_Witness ==
    /\ pc = "error"
    /\ ret.op = "update_lattice"
    /\ magtype = "para"
    /\ n = 2

\* C5: a call of update_lattice never counts past 2 * n * n trials; each
\* step inside it is one trial, which changes at most one cell; it returns
\* after exactly 2 * n * n trials, with the array as its value, whatever T, h,
\* the lattice and the flips were; and under ferro or antiferro a call that
\* runs does return.
C5_SweepLength ==
    /\ [](pc = "sweep" => num <= 2 * n * n)
    /\ [](SweepReturned => (ret.args = <<2 * n * n>> /\ ret.val = Flatten(lattice)))
    /\ [][(pc = "sweep" /\ pc' = "sweep")
             => (num' = num + 1 /\ Cardinality(Changed(lattice, lattice')) <= 1)]_vars
    /\ [][(pc = "sweep" /\ pc' = "idle") => (num = 2 * n * n /\ lattice' = lattice)]_vars
    /\ ((pc = "sweep" /\ magtype \in ValidMagTypes) ~> SweepReturned)

C5_Witness ==
    /\ SweepReturned
    /\ n = 2
    /\ ret.args = <<8>>

\* C6: in a trial with T > 0 whose del_E is negative or zero the probability
\* is 1.0 and the drawn spin is flipped, whatever r was drawn; a trial that
\* leaves the spin as it was had del_E > 0.
C6_DownhillAlwaysAccepted ==
    (ret.op = "trial" /\ ret.ok /\ T100 > 0) =>
        LET i == ret.args[1]
            j == ret.args[2]
            del_E == ret.args[4]
            one == ret.args[5]
            before == ret.val[i * n + j + 1]
            flipped == lattice[i + 1][j + 1] = -before
        IN  /\ del_E <= 0 => (one = 1 /\ flipped)
            /\ ~flipped => del_E > 0

\* a neutral move (del_E = 0), flipped with no draw of r at all
C6_Witness ==
    /\ ret.op = "trial"
    /\ ret.ok
    /\ T100 > 0
    /\ n = 2
    /\ ret.args[3] = -1
    /\ ret.args[4] = 0
    /\ lattice[ret.args[1] + 1][ret.args[2] + 1] = -ret.val[ret.args[1] * n + ret.args[2] + 1]

\* C7: ham_calc(s, nb, h, magtype) is -J * s * (nb[1] + nb[2] + nb[3] + nb[4]) - h * s
\* with J = 1 for ferro and -1 for antiferro; s = +1 among four +1 neighbours
\* at h = 0 gives -4 for ferro and +4 for antiferro.
C7_LocalHamiltonian ==
    (ret.op = "ham_calc" /\ ret.magtype \in ValidMagTypes) =>
        LET s == ret.args[1]
            total == ret.args[2] + ret.args[3] + ret.args[4] + ret.args[5]
            hh == ret.args[6]
            J == IF ret.magtype = "ferro" THEN 1 ELSE -1
        IN  /\ ret.ok
            /\ ret.val = <<(-J) * s * total - hh * s>>
            /\ (s = 1 /\ total = 4 /\ hh = 0) =>
                   ret.val = <<IF ret.magtype = "ferro" THEN -4 ELSE 4>>

C7_Witness ==
    /\ ret.op = "ham_calc"
    /\ ret.magtype = "ferro"
    /\ ret.args = <<1, 1, 1, 1, 1, 0>>
    /\ ret.val = <<-4>>

\* C8: a call of magnetisation or of energy leaves every cell of the lattice
\* as it was.
C8_ObservablesReadOnly ==
    [][(pc = "idle" /\ ret'.op \in {"magnetisation", "energy"}) => lattice' = lattice]_vars

C8_Witness ==
    /\ pc = "idle"
    /\ ret.op = "energy"
    /\ ret.ok
    /\ n = 2
    /\ lattice = << <<1, -1>>, <<-1, -1>> >>

AllUp(l) == \A r \in 1..n : \A c \in 1..n : l[r][c] = 1

\* C9: on the all +1 lattice of side n >= 1, magnetisation returns m = 1.0 and
\* m squared = 1.0, and energy under ferro and h = 0 returns e = -2.0, the
\* local energies summing to -4 * n * n before the halving.
C9_GroundState ==
    (pc = "idle" /\ AllUp(lattice)) =>
        /\ ret.op = "magnetisation" =>
               /\ ret.val[2] > 0 /\ ret.val[1] = ret.val[2]
               /\ ret.val[4] > 0 /\ ret.val[3] = ret.val[4]
        /\ (ret.op = "energy" /\ ret.magtype = "ferro" /\ ret.args = <<0>>) =>
               /\ ret.ok
               /\ ret.val[1] = -4 * n * n
               /\ ret.val[2] > 0 /\ ret.val[1] = -2 * ret.val[2]

C9_Witness ==
    /\ pc = "idle"
    /\ n = 2
    /\ AllUp(lattice)
    /\ ret.op = "energy"
    /\ ret.magtype = "ferro"
    /\ ret.args = <<0>>
    /\ ret.val[1] = -16
    /\ ret.val[2] = 8

Checkerboard4 ==
    << <<-1, 1, -1, 1>>, <<1, -1, 1, -1>>, <<-1, 1, -1, 1>>, <<1, -1, 1, -1>> >>

\* C10: through the 50 sweeps at T = 0.01, h = 0, antiferro from
\* antiferro_lattice_gen(4), every site has four anti-aligned neighbours and
\* del_E = +8, no trial is accepted, the lattice stays the checkerboard and
\* every magnetisation sampled is exactly 0.
C10_CheckerboardStable ==
    /\ lattice = Checkerboard4
    /\ \A i \in 0..3, j \in 0..3 :
         /\ \A k \in 1..4 : nearest_neighbours(lattice, i, j)[k] = -lattice[i + 1][j + 1]
         /\ DeltaE(lattice, i, j, 0, "antiferro") = Returned(8)
    /\ ret.op = "magnetisation" => (ret.val[1] = 0 /\ ret.val[2] = 16)

C10_Witness ==
    /\ calls = 50
    /\ pc = "idle"
    /\ ret.op = "magnetisation"
    /\ ret.val[1] = 0

====
